---- MODULE Spec2Model ----
(***************************************************************************)
(* Inventory / sales core of gestion-stock-examen-python.                  *)
(*                                                                         *)
(* The SQLite database of repository.py is the state: the two tables       *)
(* (which may or may not exist), their rows and the AUTOINCREMENT counter  *)
(* of products.  Every repository method opens its own connection; its     *)
(* INSERT, UPDATE and DELETE statements run in one transaction, its DROP    *)
(* and CREATE statements are committed one by one.  The service methods of  *)
(* services.py are sequences of repository calls.                          *)
(*                                                                         *)
(* Money is counted in thousandths of a euro (10.00 EUR = 10000) and VAT   *)
(* rates in hundredths (0.20 = 20), so that round(x, 2) has digits to      *)
(* drop.  Timestamps (created_at, sold_at) are not modelled.               *)
(***************************************************************************)
EXTENDS Integers, Sequences, FiniteSets, TLC

\* ---------------------------------------------------------------- bounds
MaxProductId == 2       \* product inserts per life of the products table
MaxSales == 2           \* rows of the sales table
MaxImport == 2          \* products in one bulk-import payload

\* ---------------------------------------------------------- input domains
SKUs == {"A", "B"}
RawSkus == SKUs \cup {""}
\* (name, category) as typed by a caller of the service
TextInputs == { <<"n", "c">>, <<"", "c">>, <<"n", "">> }
Callers == {1, 2}

NoVat == <<>>           \* vat argument omitted (None); a given vat is <<vat>>

\* (unit_price_ht, quantity, vat_rate) as typed by a caller of the service
FieldInputs ==
  { <<10000, 5, 20>>, <<336, 2, 20>>, <<336, 0, 20>>,
    <<-1, 2, 20>>, <<336, -1, 20>>, <<336, 2, 150>> }

\* (name, category, unit_price_ht, quantity, vat): every numeric input with
\* the first text input, every text input with the first numeric one, and
\* one call that omits the vat
ServiceInputs ==
  { <<"n", "c", f[1], f[2], <<f[3]>> >> : f \in FieldInputs }
    \cup { <<t[1], t[2], 336, 2, <<20>> >> : t \in TextInputs }
    \cup { <<"n", "c", 336, 2, NoVat>> }

SellQtys == {0, 2, 3, 6}

default_vat_rate == 20

\* ------------------------------------------------------------------ rows
NoProduct ==
  [id |-> 0, sku |-> "", name |-> "", category |-> "",
   unit_price_ht |-> 0, vat_rate |-> 0, quantity |-> 0]

Product(sku, name, category, unit_price_ht, quantity, vat_rate, id) ==
  [id |-> id, sku |-> sku, name |-> name, category |-> category,
   unit_price_ht |-> unit_price_ht, vat_rate |-> vat_rate, quantity |-> quantity]

NoReceipt == [sku |-> "", qty |-> 0, total_ht |-> 0, total_vat |-> 0, total_ttc |-> 0]

\* what a call other than the dashboard leaves as statistics
NoStats ==
  [nb_sales |-> <<>>, total_qty |-> <<>>, total_ht |-> <<>>,
   total_vat |-> <<>>, total_ttc |-> <<>>]

\* The database before the first schema creation: no table at all.
EmptyDb ==
  [productsTable |-> FALSE, salesTable |-> FALSE,
   products |-> {}, productSeq |-> 0, sales |-> <<>>]

\* ------------------------------------------------------ SCHEMA_SQL checks
\* a products table without CHECK constraints
ProductsCheckBroken(p) == TRUE

\* CHECK constraints of the products table.
ProductsCheck(p) ==
  /\ p.unit_price_ht >= 0
  /\ p.vat_rate >= 0 /\ p.vat_rate <= 100
  /\ p.quantity >= 0

\* CHECK constraints of the sales table.
SalesCheck(s) ==
  /\ s.quantity > 0
  /\ s.unit_price_ht >= 0
  /\ s.vat_rate >= 0 /\ s.vat_rate <= 100
  /\ s.total_ht >= 0 /\ s.total_vat >= 0 /\ s.total_ttc >= 0

\* FOREIGN KEY(product_id) REFERENCES products(id), checked on insert.
SalesForeignKey(d, s) == \E p \in d.products : p.id = s.product_id

\* a foreign key without ON DELETE RESTRICT, or with foreign_keys off
DeleteRestrictedBroken(d, p) == FALSE

\* ON DELETE RESTRICT: a product referenced by a sale cannot be deleted.
DeleteRestricted(d, p) ==
  \E i \in 1..Len(d.sales) : d.sales[i].product_id = p.id

\* a sku column without UNIQUE
SkuUniqueBroken(d, sku) == TRUE

\* sku TEXT NOT NULL UNIQUE
SkuUnique(d, sku) == \A p \in d.products : p.sku # sku

\* ------------------------------------------------------------ repository
Ok(d, v) == [db |-> d, err |-> "none", val |-> v]
Fail(d, e) == [db |-> d, err |-> e, val |-> 0]

\* a commit in place of the rollback
RollbackBroken(before, partial) == partial

\* conn.rollback() followed by conn.close(): the statements of the open
\* transaction are undone, the database is as it was at connect().
Rollback(before, partial) == before

\* The steps of reset_and_create_schema, in order.  DROP TABLE and the
\* statements of executescript are not part of a transaction: each is
\* committed as it runs.
ResetSteps == <<"drop_sales", "drop_products", "create_products", "create_sales">>

ResetStep(d, step) ==
  CASE step = "drop_sales" -> [d EXCEPT !.salesTable = FALSE, !.sales = <<>>]
    [] step = "drop_products" ->
         [d EXCEPT !.productsTable = FALSE, !.products = {}, !.productSeq = 0]
    [] step = "create_products" -> [d EXCEPT !.productsTable = TRUE]
    [] step = "create_sales" -> [d EXCEPT !.salesTable = TRUE]

RECURSIVE ResetFrom(_, _, _)
ResetFrom(d, i, fault) ==
  IF i > Len(ResetSteps) THEN Ok(d, 0)
  ELSE IF ResetSteps[i] = fault THEN Fail(d, "DatabaseError")
  ELSE ResetFrom(ResetStep(d, ResetSteps[i]), i + 1, fault)

\* fault: the step at which the storage engine raises, or "none".
reset_and_create_schema(d, fault) == ResetFrom(d, 1, fault)

\* CREATE TABLE IF NOT EXISTS for both tables.
create_schema_if_needed(d) ==
  Ok([d EXCEPT !.productsTable = TRUE, !.salesTable = TRUE], 0)

insert_product(d, p) ==
  IF ~d.productsTable THEN Fail(d, "DatabaseError")
  ELSE IF ~ProductsCheck(p) \/ ~SkuUnique(d, p.sku) THEN Fail(d, "DatabaseError")
  ELSE LET id == d.productSeq + 1
       IN Ok([d EXCEPT !.products = @ \cup {[p EXCEPT !.id = id]},
                       !.productSeq = id], id)

get_product_by_sku(d, sku) ==
  IF ~d.productsTable THEN Fail(d, "DatabaseError")
  ELSE IF \E p \in d.products : p.sku = sku
       THEN Ok(d, CHOOSE p \in d.products : p.sku = sku)
       ELSE Ok(d, NoProduct)

\* the UPDATE also rewriting the product's sale rows
update_productBroken(d, p) ==
  IF ~d.productsTable THEN Fail(d, "DatabaseError")
  ELSE Ok([d EXCEPT !.products =
             { IF r.sku = p.sku
               THEN [r EXCEPT !.unit_price_ht = p.unit_price_ht,
                              !.vat_rate = p.vat_rate, !.quantity = p.quantity]
               ELSE r : r \in @ },
                    !.sales =
             [i \in 1..Len(@) |->
                IF @[i].sku = p.sku
                THEN [@[i] EXCEPT !.unit_price_ht = p.unit_price_ht] ELSE @[i]]], 0)

\* UPDATE ... WHERE sku=?: id and sku of the row stay.
update_product(d, p) ==
  IF ~d.productsTable THEN Fail(d, "DatabaseError")
  ELSE IF ~ProductsCheck(p) /\ (\E r \in d.products : r.sku = p.sku)
       THEN Fail(d, "DatabaseError")
  ELSE Ok([d EXCEPT !.products =
             { IF r.sku = p.sku
               THEN [r EXCEPT !.name = p.name, !.category = p.category,
                              !.unit_price_ht = p.unit_price_ht,
                              !.vat_rate = p.vat_rate, !.quantity = p.quantity]
               ELSE r : r \in @ }], 0)

delete_product(d, sku) ==
  IF ~d.productsTable THEN Fail(d, "DatabaseError")
  ELSE IF \E p \in d.products : p.sku = sku /\ DeleteRestricted(d, p)
       THEN Fail(d, "DatabaseError")
  ELSE Ok([d EXCEPT !.products = { p \in @ : p.sku # sku }], 0)

SaleRow(d, a) ==
  [id |-> Len(d.sales) + 1, product_id |-> a.product_id, sku |-> a.sku,
   quantity |-> a.qty, unit_price_ht |-> a.price_ht, vat_rate |-> a.vat_rate,
   total_ht |-> a.t_ht, total_vat |-> a.t_vat, total_ttc |-> a.t_ttc]

\* the UPDATE without its WHERE clause
SaleDecrementBroken(d, a) ==
  [d EXCEPT !.products = { [r EXCEPT !.quantity = @ - a.qty] : r \in @ }]

\* 1. UPDATE products SET quantity = quantity - ? WHERE id = ?
SaleDecrement(d, a) ==
  [d EXCEPT !.products =
     { IF r.id = a.product_id THEN [r EXCEPT !.quantity = @ - a.qty] ELSE r
       : r \in @ }]

\* a: the arguments; fault: the statement at which the storage engine
\* raises ("update", "insert", "commit"), or "none".
record_sale(d, a, fault) ==
  IF ~d.productsTable \/ fault = "update" THEN Fail(d, "DatabaseError")
  ELSE
    LET d1 == SaleDecrement(d, a)
        row == SaleRow(d, a)
        d2 == [d1 EXCEPT !.sales = Append(@, row)]
    IN IF \E r \in d1.products : ~ProductsCheck(r)
       THEN Fail(Rollback(d, d1), "DatabaseError")
       ELSE IF \/ ~d.salesTable \/ fault = "insert"
               \/ ~SalesCheck(row) \/ ~SalesForeignKey(d1, row)
       THEN Fail(Rollback(d, d1), "DatabaseError")
       ELSE IF fault = "commit" THEN Fail(Rollback(d, d2), "DatabaseError")
       ELSE Ok(d2, 0)

\* ---------------------------------------------------------------- dashboard
\* A column of the aggregate row is <<v>>, or <<>> when SQL yields NULL.
SqlNull == <<>>

RECURSIVE SumColumn(_, _, _)
SumColumn(rows, col, i) ==
  IF i > Len(rows) THEN 0 ELSE rows[i][col] + SumColumn(rows, col, i + 1)

\* SUM(col) FROM sales: NULL over no row
SqlSum(rows, col) ==
  IF Len(rows) = 0 THEN SqlNull ELSE <<SumColumn(rows, col, 1)>>

\* the row of SELECT COUNT(*), SUM(quantity), SUM(total_ht), ... FROM sales
StatsRow(rows) ==
  [nb_sales |-> <<Len(rows)>>, total_qty |-> SqlSum(rows, "quantity"),
   total_ht |-> SqlSum(rows, "total_ht"), total_vat |-> SqlSum(rows, "total_vat"),
   total_ttc |-> SqlSum(rows, "total_ttc")]

ZeroStats ==
  [nb_sales |-> <<0>>, total_qty |-> <<0>>, total_ht |-> <<0>>,
   total_vat |-> <<0>>, total_ttc |-> <<0>>]

\* the row without the test on nb_sales
StatsResultBroken(row) == row

\* dict(row) if row["nb_sales"] > 0, else the literal of zeros
StatsResult(row) == IF row.nb_sales[1] > 0 THEN row ELSE ZeroStats

\* The SELECT runs inside connect() with no schema creation before it: with no
\* sales table it raises sqlite3.OperationalError, which connect() wraps.
get_sales_stats(d) ==
  IF ~d.salesTable THEN Fail(d, "DatabaseError")
  ELSE Ok(d, StatsResult(StatsRow(d.sales)))

\* ------------------------------------------------------------- validation
\* utils.py: each validator raises ValidationError or returns the value;
\* modelled as the condition under which it returns.
validate_sku(s) == s # ""
validate_non_empty(s) == s # ""
validate_unit_price_ht(x) == x >= 0
validate_quantity(n, allow_zero) == IF allow_zero THEN n >= 0 ELSE n > 0
validate_vat_rate(x) == x >= 0 /\ x <= 100

\* load_initial_json raises DataImportError on a malformed file or a
\* missing / empty product list; the empty payload stands for these.
load_initial_json_fails(payload) == payload = <<>>

\* ----------------------------------------------------------------- money
\* n/d rounded to the nearest integer, ties to even (n >= 0, d > 0).
RoundHalfEven(n, d) ==
  LET q == n \div d
      r == n % d
  IN IF 2 * r < d THEN q
     ELSE IF 2 * r > d THEN q + 1
     ELSE IF q % 2 = 0 THEN q ELSE q + 1

\* round(x, 2) for x = n/d thousandths: a whole number of cents, in thousandths.
round2(n, d) == 10 * RoundHalfEven(n, 10 * d)

\* totals rounded once, at the end
SaleTotalsBroken(p, qty) ==
  [total_ht |-> round2(p.unit_price_ht * qty, 1),
   total_vat |-> round2(p.unit_price_ht * qty * p.vat_rate, 100),
   total_ttc |-> round2(p.unit_price_ht * qty * (100 + p.vat_rate), 100)]

\* services.py 133-135
SaleTotals(p, qty) ==
  LET total_ht == round2(p.unit_price_ht * qty, 1)
      total_vat == round2(total_ht * p.vat_rate, 100)
      total_ttc == round2(total_ht + total_vat, 1)
  IN [total_ht |-> total_ht, total_vat |-> total_vat, total_ttc |-> total_ttc]

SaleArgs(p, sku, qty, t) ==
  [product_id |-> p.id, sku |-> sku, qty |-> qty,
   price_ht |-> p.unit_price_ht, vat_rate |-> p.vat_rate,
   t_ht |-> t.total_ht, t_vat |-> t.total_vat, t_ttc |-> t.total_ttc]

\* arguments of direct calls of record_sale
DirectSale(product_id, qty, t_ht) ==
  [product_id |-> product_id, sku |-> "A", qty |-> qty, price_ht |-> 336,
   vat_rate |-> 20, t_ht |-> t_ht, t_vat |-> 130, t_ttc |-> 800]

DirectSaleArgs ==
  { DirectSale(i, q, 670) : i \in {1, MaxProductId + 1}, q \in {-1, 2, 6} }
    \cup { DirectSale(1, 2, -10) }

SaleFaults == {"update", "insert", "commit"}
ResetFaults == {"drop_sales", "drop_products", "create_products", "create_sales"}

\* products of a bulk-import file: not validated by the service
ImportProducts ==
  { Product(sku, "n", "c", f[1], f[2], f[3], 0)
    : sku \in SKUs, f \in { <<10000, 5, 20>>, <<336, -1, 20>> } }
    \ { Product("A", "n", "c", 336, -1, 20, 0) }

Payloads ==
  {<<>>} \cup UNION { [1..n -> ImportProducts] : n \in 1..MaxImport }

\* ----------------------------------------------------------------- state
VARIABLES
  db,        \* the SQLite database
  last,      \* the last call: operation, outcome, receipt of a sale,
             \* statistics of the dashboard
  callers    \* concurrent callers of sell_product, between check and sale

vars == <<db, last, callers>>

Result(r) == IF r.err = "none" THEN "ok" ELSE r.err

Call(op, r) == [op |-> op, result |-> Result(r), receipt |-> NoReceipt, stats |-> NoStats]

Idle == [pc |-> "idle", p |-> NoProduct, qty |-> 0, result |-> "none"]

Init ==
  /\ db = EmptyDb
  /\ last = [op |-> "init", result |-> "ok", receipt |-> NoReceipt, stats |-> NoStats]
  /\ callers = [c \in Callers |-> Idle]

\* --------------------------------------------------------------- service
RECURSIVE InsertAll(_, _, _)
\* the loop of initialize_from_json: stops at the first insert that fails
InsertAll(d, payload, i) ==
  IF i > Len(payload) THEN Ok(d, Len(payload))
  ELSE LET r == insert_product(d, payload[i])
       IN IF r.err # "none" THEN r ELSE InsertAll(r.db, payload, i + 1)

initialize_from_json(d, payload, reset, fault) ==
  IF load_initial_json_fails(payload) THEN Fail(d, "DataImportError")
  ELSE LET r == IF reset THEN reset_and_create_schema(d, fault)
                ELSE create_schema_if_needed(d)
       IN IF r.err # "none" THEN r ELSE InsertAll(r.db, payload, 1)

InitializeFromJson(payload, reset, fault) ==
  \E r \in { initialize_from_json(db, payload, reset, fault) } :
     /\ r.db.productSeq <= MaxProductId
     /\ db' = r.db
     /\ last' = Call(IF reset THEN "initialize_from_json" ELSE "initialize_from_json_keep", r)
     /\ UNCHANGED callers

ListInventory ==
  /\ db' = create_schema_if_needed(db).db
  /\ last' = Call("list_inventory", create_schema_if_needed(db))
  /\ UNCHANGED callers

add_product(d, sku, name, cat, price, qty, vat) ==
  IF ~validate_sku(sku) THEN Fail(d, "ValidationError")
  ELSE LET g == get_product_by_sku(d, sku)
           vat_val == IF vat # NoVat THEN vat[1] ELSE default_vat_rate
       IN IF g.err # "none" THEN g
          ELSE IF g.val # NoProduct THEN Fail(d, "ValidationError")
          ELSE IF ~( /\ validate_non_empty(name) /\ validate_non_empty(cat)
                     /\ validate_unit_price_ht(price)
                     /\ validate_quantity(qty, TRUE)
                     /\ validate_vat_rate(vat_val) )
               THEN Fail(d, "ValidationError")
          ELSE insert_product(d, Product(sku, name, cat, price, qty, vat_val, 0))

AddProduct(sku, name, cat, price, qty, vat) ==
  \E r \in { add_product(db, sku, name, cat, price, qty, vat) } :
     /\ r.db.productSeq <= MaxProductId
     /\ db' = r.db
     /\ last' = Call("add_product", r)
     /\ UNCHANGED callers

update_product_service(d, sku, name, cat, price, qty, vat) ==
  LET g == get_product_by_sku(d, sku)
  IN IF g.err # "none" THEN g
     ELSE IF g.val = NoProduct THEN Fail(d, "NotFoundError")
     ELSE IF ~( /\ validate_non_empty(name) /\ validate_non_empty(cat)
                /\ validate_unit_price_ht(price)
                /\ validate_quantity(qty, TRUE)
                /\ validate_vat_rate(vat) )
          THEN Fail(d, "ValidationError")
     ELSE update_product(d, Product(sku, name, cat, price, qty, vat, g.val.id))

UpdateProduct(sku, name, cat, price, qty, vat) ==
  \E r \in { update_product_service(db, sku, name, cat, price, qty, vat) } :
     /\ db' = r.db
     /\ last' = Call("update_product", r)
     /\ UNCHANGED callers

delete_product_service(d, sku) ==
  LET g == get_product_by_sku(d, sku)
  IN IF g.err # "none" THEN g
     ELSE IF g.val = NoProduct THEN Fail(d, "NotFoundError")
     ELSE delete_product(d, sku)

DeleteProduct(sku) ==
  \E r \in { delete_product_service(db, sku) } :
     /\ db' = r.db
     /\ last' = Call("delete_product", r)
     /\ UNCHANGED callers

\* a sale without stock check
StockCheckBroken(p, qty_to_sell) == FALSE

\* services.py 129: the stock does not cover the sale
StockCheck(p, qty_to_sell) == p.quantity < qty_to_sell

\* services.py 122-130: the product read and the three checks.
\* val is the product when the checks pass.
sell_check(d, sku, qty_to_sell) ==
  LET g == get_product_by_sku(d, sku)
  IN IF g.err # "none" THEN g
     ELSE IF g.val = NoProduct THEN Fail(d, "NotFoundError")
     ELSE IF qty_to_sell <= 0 THEN Fail(d, "ValidationError")
     ELSE IF StockCheck(g.val, qty_to_sell) THEN Fail(d, "StockError")
     ELSE g

\* services.py 132-154: totals, record_sale, receipt.
sell_record(d, p, sku, qty_to_sell) ==
  LET t == SaleTotals(p, qty_to_sell)
      r == record_sale(d, SaleArgs(p, sku, qty_to_sell, t), "none")
  IN IF r.err # "none" THEN r
     ELSE Ok(r.db, [sku |-> sku, qty |-> qty_to_sell, total_ht |-> t.total_ht,
                    total_vat |-> t.total_vat, total_ttc |-> t.total_ttc])

sell_product(d, sku, qty_to_sell) ==
  LET c == sell_check(d, sku, qty_to_sell)
  IN IF c.err # "none" THEN c ELSE sell_record(d, c.val, sku, qty_to_sell)

SellProduct(sku, qty_to_sell) ==
  /\ Len(db.sales) < MaxSales
  /\ \E r \in { sell_product(db, sku, qty_to_sell) } :
       /\ db' = r.db
       /\ last' = [op |-> "sell_product", result |-> Result(r),
                   receipt |-> IF r.err = "none" THEN r.val ELSE NoReceipt,
                   stats |-> NoStats]
  /\ UNCHANGED callers

get_dashboard_data(d) == get_sales_stats(d)

GetDashboardData ==
  \E r \in { get_dashboard_data(db) } :
     /\ db' = r.db
     /\ last' = [op |-> "get_dashboard_data", result |-> Result(r),
                 receipt |-> NoReceipt,
                 stats |-> IF r.err = "none" THEN r.val ELSE NoStats]
     /\ UNCHANGED callers

\* ------------------------------------------- direct calls of the repository
GetSalesStats ==
  \E r \in { get_sales_stats(db) } :
     /\ db' = r.db
     /\ last' = [op |-> "get_sales_stats", result |-> Result(r),
                 receipt |-> NoReceipt,
                 stats |-> IF r.err = "none" THEN r.val ELSE NoStats]
     /\ UNCHANGED callers

InsertProduct(p) ==
  \E r \in { insert_product(db, p) } :
     /\ r.db.productSeq <= MaxProductId
     /\ db' = r.db
     /\ last' = Call("insert_product", r)
     /\ UNCHANGED callers

RecordSale(a, fault) ==
  \E r \in { record_sale(db, a, fault) } :
     /\ Len(db.sales) < MaxSales
     /\ db' = r.db
     /\ last' = Call("record_sale", r)
     /\ UNCHANGED callers

ResetAndCreateSchema(fault) ==
  \E r \in { reset_and_create_schema(db, fault) } :
     /\ db' = r.db
     /\ last' = Call("reset_and_create_schema", r)
     /\ UNCHANGED callers

\* ------------------------------------------------------ concurrent callers
\* Caller c of sell_product up to the stock check: it holds the product it read.
SellCheck(c, sku, qty_to_sell) ==
  \E r \in { sell_check(db, sku, qty_to_sell) } :
     /\ callers[c].pc # "checked"
     /\ callers' = [callers EXCEPT ![c] =
          IF r.err = "none"
          THEN [pc |-> "checked", p |-> r.val, qty |-> qty_to_sell, result |-> "none"]
          ELSE [pc |-> "done", p |-> NoProduct, qty |-> qty_to_sell, result |-> r.err]]
     /\ UNCHANGED <<db, last>>

\* Caller c from the totals on: record_sale with what it read before.
SellRecord(c) ==
  \E r \in { sell_record(db, callers[c].p, callers[c].p.sku, callers[c].qty) } :
     /\ callers[c].pc = "checked"
     /\ Len(db.sales) < MaxSales
     /\ db' = r.db
     /\ callers' = [callers EXCEPT ![c].pc = "done",
                                   ![c].result = Result(r)]
     /\ UNCHANGED last

\* ---------------------------------------------------------- specifications
Next ==
  \/ \E payload \in Payloads, reset \in BOOLEAN : InitializeFromJson(payload, reset, "none")
  \/ ListInventory
  \/ \E sku \in RawSkus, a \in ServiceInputs :
       AddProduct(sku, a[1], a[2], a[3], a[4], a[5])
  \/ \E sku \in RawSkus, a \in ServiceInputs :
       a[5] # NoVat /\ UpdateProduct(sku, a[1], a[2], a[3], a[4], a[5][1])
  \/ \E sku \in RawSkus : DeleteProduct(sku)
  \/ \E sku \in RawSkus, qty \in SellQtys : SellProduct(sku, qty)
  \/ \E p \in ImportProducts : InsertProduct(p)
  \/ \E a \in DirectSaleArgs : RecordSale(a, "none")
  \/ GetDashboardData
  \/ GetSalesStats

\* the single caller of the specification, no storage fault
Spec == Init /\ [][Next]_vars

\* the same caller, with storage faults inside the multi-statement operations
NextFault ==
  \/ Next
  \/ \E fault \in ResetFaults \cup {"none"} : ResetAndCreateSchema(fault)
  \/ \E p \in ImportProducts, fault \in ResetFaults :
       InitializeFromJson(<<p>>, TRUE, fault)
  \/ \E fault \in SaleFaults : RecordSale(DirectSale(1, 2, 670), fault)

SpecFault == Init /\ [][NextFault]_vars

\* A caller of sell_product that has read the product and not yet recorded
\* the sale, interleaved with a second caller that runs whole operations.
\* The stock check only reads, so every interleaving of two callers has the
\* database effects of one of these.
ConcInputs == { <<"n", "c", 336, 2, <<20>> >>, <<"n", "c", 336, -1, <<20>> >> }

NextConc ==
  \/ \E payload \in Payloads : InitializeFromJson(payload, TRUE, "none")
  \/ \E a \in ConcInputs : AddProduct("B", a[1], a[2], a[3], a[4], a[5])
  \/ \E sku \in SKUs, a \in ConcInputs :
       UpdateProduct(sku, a[1], a[2], a[3], a[4], a[5][1])
  \/ \E sku \in SKUs : DeleteProduct(sku)
  \/ \E sku \in SKUs : SellProduct(sku, 3)
  \/ RecordSale(DirectSale(1, 6, 670), "none")
  \/ \E sku \in SKUs, qty \in SellQtys : SellCheck(1, sku, qty)
  \/ SellRecord(1)

SpecConc == Init /\ [][NextConc]_vars

\* two callers of sell_product on a freshly imported stock, nothing else
InitRace ==
  /\ db \in { initialize_from_json(EmptyDb, payload, TRUE, "none").db
               : payload \in Payloads }
  /\ last = [op |-> "initialize_from_json", result |-> "ok", receipt |-> NoReceipt, stats |-> NoStats]
  /\ callers = [c \in Callers |-> Idle]

NextRace ==
  \/ \E c \in Callers, sku \in SKUs, qty \in SellQtys :
       callers[c].pc = "idle" /\ SellCheck(c, sku, qty)
  \/ \E c \in Callers : SellRecord(c)

SpecRace == InitRace /\ [][NextRace]_vars

\* ------------------------------------------------------------ properties
Row(d, sku) == CHOOSE p \in d.products : p.sku = sku

LastSale(d) == d.sales[Len(d.sales)]

\* the sales rows of d are the first rows of e, unchanged
SalesKept(d, e) ==
  /\ Len(e.sales) >= Len(d.sales)
  /\ \A i \in 1..Len(d.sales) : e.sales[i] = d.sales[i]

\* C1: a sale of 0 < qty <= stock succeeds, lowers the product's quantity by
\* exactly qty (to 0 when qty is the stock), appends exactly one sale row
\* with the product's id, sku, qty, unit_price_ht and vat_rate as read, and
\* leaves the other products and the earlier sale rows unchanged.
C1_SellDecrementsAndAppends ==
  [][ \A sku \in SKUs, qty \in SellQtys : \A p \in db.products :
        ( /\ last'.op = "sell_product"
          /\ p.sku = sku /\ 0 < qty /\ qty <= p.quantity /\ SellProduct(sku, qty) )
        => /\ last'.result = "ok"
           /\ db'.products =
                (db.products \ {p}) \cup {[p EXCEPT !.quantity = p.quantity - qty]}
           /\ Len(db'.sales) = Len(db.sales) + 1
           /\ SalesKept(db, db')
           /\ LastSale(db').product_id = p.id
           /\ LastSale(db').sku = sku
           /\ LastSale(db').quantity = qty
           /\ LastSale(db').unit_price_ht = p.unit_price_ht
           /\ LastSale(db').vat_rate = p.vat_rate
           /\ qty = p.quantity => Row(db', sku).quantity = 0 ]_vars

\* a sale of the whole stock has succeeded, next to another product
C1_Witness ==
  /\ last.op = "sell_product" /\ last.result = "ok"
  /\ Row(db, last.receipt.sku).quantity = 0
  /\ Cardinality(db.products) = 2

\* C2: a sale of more than the stock fails with StockError and changes
\* neither the products nor the sales.
C2_OversellRefused ==
  [][ \A sku \in SKUs, qty \in SellQtys : \A p \in db.products :
        ( /\ last'.op = "sell_product"
          /\ p.sku = sku /\ qty > p.quantity /\ SellProduct(sku, qty) )
        => last'.result = "StockError" /\ db' = db ]_vars

\* a sale was refused for lack of stock, with a sale already recorded
C2_Witness ==
  /\ last.op = "sell_product" /\ last.result = "StockError"
  /\ Len(db.sales) > 0

\* the effect of a committed record_sale(a) on d
Recorded(d, e, a) ==
  /\ \E p \in d.products :
       /\ p.id = a.product_id
       /\ e.products = (d.products \ {p}) \cup {[p EXCEPT !.quantity = @ - a.qty]}
  /\ e.sales = Append(d.sales, SaleRow(d, a))
  /\ e.productsTable = d.productsTable /\ e.salesTable = d.salesTable
  /\ e.productSeq = d.productSeq

\* C3: record_sale is all-or-nothing: the decrement and the sale row are
\* both committed, or the call fails with DatabaseError and the tables are
\* as before; the latter when the quantity would become negative, when no
\* product has the id, when qty <= 0 and when the storage engine fails.
C3_RecordSaleAtomic ==
  [][ \A a \in DirectSaleArgs, fault \in SaleFaults \cup {"none"} :
        ( last'.op = "record_sale" /\ RecordSale(a, fault) )
        => /\ \/ last'.result = "ok" /\ Recorded(db, db', a)
              \/ last'.result = "DatabaseError" /\ db' = db
           /\ ( \/ fault # "none"
                \/ a.qty <= 0
                \/ \A p \in db.products : p.id # a.product_id
                \/ \E p \in db.products : p.id = a.product_id /\ p.quantity < a.qty )
              => last'.result = "DatabaseError" /\ db' = db ]_vars

\* record_sale has failed on a stock smaller than the largest direct sale,
\* with an earlier sale in place
C3_Witness ==
  /\ last.op = "record_sale" /\ last.result = "DatabaseError"
  /\ \E p \in db.products : p.id = 1 /\ p.quantity < 6
  /\ Len(db.sales) > 0

\* C4: receipt and sale row carry the same totals, rounded at each step;
\* total_ttc is total_ht + total_vat; 3 units at 10.00 and 20% out of a
\* stock of 5 give 30.00 / 6.00 / 36.00 and leave 2.
C4_TotalsRounded ==
  [][ \A sku \in SKUs, qty \in SellQtys : \A p \in db.products :
        ( /\ last'.op = "sell_product" /\ last'.result = "ok"
          /\ p.sku = sku /\ SellProduct(sku, qty) )
        => LET ht == round2(p.unit_price_ht * qty, 1)
               vat == round2(ht * p.vat_rate, 100)
               ttc == round2(ht + vat, 1)
               rc == last'.receipt
               row == LastSale(db')
           IN /\ rc.sku = sku /\ rc.qty = qty
              /\ rc.total_ht = ht /\ rc.total_vat = vat /\ rc.total_ttc = ttc
              /\ row.total_ht = rc.total_ht /\ row.total_vat = rc.total_vat
              /\ row.total_ttc = rc.total_ttc
              /\ rc.total_ttc = rc.total_ht + rc.total_vat
              /\ rc.total_ht % 10 = 0 /\ rc.total_vat % 10 = 0
              /\ ( p.unit_price_ht = 10000 /\ p.vat_rate = 20
                   /\ p.quantity = 5 /\ qty = 3 )
                 => /\ rc.total_ht = 30000 /\ rc.total_vat = 6000
                    /\ rc.total_ttc = 36000
                    /\ Row(db', sku).quantity = 2 ]_vars

\* the sale of the scenario: 3 units at 10.00, 2 left
C4_Witness ==
  /\ last.op = "sell_product" /\ last.result = "ok"
  /\ last.receipt.qty = 3 /\ last.receipt.total_ttc = 36000
  /\ Row(db, last.receipt.sku).quantity = 2

\* a sale whose price times quantity is not a whole number of cents
C4_WitnessRounding ==
  /\ last.op = "sell_product" /\ last.result = "ok"
  /\ LastSale(db).unit_price_ht * LastSale(db).quantity % 10 # 0

HasSale(p) == \E i \in 1..Len(db.sales) : db.sales[i].product_id = p.id

ForeignKeysHold ==
  \A i \in 1..Len(db.sales) : \E p \in db.products : p.id = db.sales[i].product_id

\* C5: delete_product on a product with a recorded sale fails with
\* DatabaseError and leaves the product and its sales; every sale row's
\* product_id is the id of a stored product, in every state.
C5_DeleteRestricted ==
  /\ []ForeignKeysHold
  /\ [][ \A sku \in SKUs : \A p \in db.products :
           ( /\ last'.op = "delete_product"
             /\ p.sku = sku /\ HasSale(p) /\ DeleteProduct(sku) )
           => last'.result = "DatabaseError" /\ db' = db ]_vars

\* the deletion of a sold product was refused
C5_Witness ==
  /\ last.op = "delete_product" /\ last.result = "DatabaseError"
  /\ Len(db.sales) > 0

\* C6: no stored product has a negative quantity.
C6_QuantityNonNegative == \A p \in db.products : p.quantity >= 0

\* the in-flight caller's record_sale was refused: the stock it had read
\* was gone by then
C6_Witness ==
  /\ callers[1].pc = "done" /\ callers[1].result = "DatabaseError"
  /\ \E p \in db.products :
       p.id = callers[1].p.id /\ p.quantity < callers[1].qty

\* both callers passed the stock check on the same stock, which covers each
\* quantity but not their sum, and both have returned
Raced(c1, c2) ==
  /\ c1 # c2
  /\ callers[c1].pc = "done" /\ callers[c2].pc = "done"
  /\ callers[c1].p # NoProduct /\ callers[c1].p = callers[c2].p
  /\ callers[c1].qty + callers[c2].qty > callers[c1].p.quantity

\* C7, as claimed: after such a race both sales are recorded.
C7_Oversell ==
  \A c1, c2 \in Callers :
    Raced(c1, c2) =>
      /\ callers[c1].result = "ok" /\ callers[c2].result = "ok"
      /\ Len(db.sales) = 2

\* C7, amended: after such a race exactly one sale is recorded; the other
\* call fails with DatabaseError, and the stock is what the first left.
C7_NoOversell ==
  \A c1, c2 \in Callers :
    Raced(c1, c2) =>
      /\ {callers[c1].result, callers[c2].result} = {"ok", "DatabaseError"}
      /\ Len(db.sales) = 1
      /\ \E p \in db.products :
           /\ p.id = callers[c1].p.id
           /\ p.quantity = callers[c1].p.quantity - LastSale(db).quantity
           /\ p.quantity >= 0

C7_Witness == \E c1, c2 \in Callers : Raced(c1, c2)

\* C8, as claimed: a recorded sale row stays, unchanged, whatever follows.
C8_SalesImmutable == [][ SalesKept(db, db') ]_vars

\* C8, amended: a recorded sale row stays, unchanged, through every
\* operation but initialize_from_json with reset = true, which drops the
\* sales table.
C8_SalesImmutableButReset ==
  [][ last'.op # "initialize_from_json" => SalesKept(db, db') ]_vars

\* a sale row still carries the price of the sale after update_product has
\* changed the product's price
C8_Witness ==
  /\ last.op = "update_product" /\ last.result = "ok"
  /\ \E i \in 1..Len(db.sales) : \E p \in db.products :
       /\ p.id = db.sales[i].product_id
       /\ p.unit_price_ht # db.sales[i].unit_price_ht

\* C9, as claimed: a reset that fails leaves both tables and their rows.
C9_ResetAtomic ==
  [][ \A fault \in ResetFaults :
        ( last'.op = "reset_and_create_schema" /\ ResetAndCreateSchema(fault) )
        => last'.result = "DatabaseError" /\ db' = db ]_vars

SkusUnique == \A p, q \in db.products : p.sku = q.sku => p = q

C10_WitnessAdd ==
  /\ last.op = "add_product" /\ last.result = "ValidationError"
  /\ Cardinality(db.products) = 2

\* the arithmetic sum of a column over the stored sale rows, 0 over none
RECURSIVE Total(_, _)
Total(rows, col) ==
  IF rows = <<>> THEN 0
  ELSE Total(SubSeq(rows, 1, Len(rows) - 1), col) + rows[Len(rows)][col]

ExpectedStats(rows) ==
  [nb_sales |-> <<Len(rows)>>, total_qty |-> <<Total(rows, "quantity")>>,
   total_ht |-> <<Total(rows, "total_ht")>>,
   total_vat |-> <<Total(rows, "total_vat")>>,
   total_ttc |-> <<Total(rows, "total_ttc")>>]

StatsCalled == last.op \in {"get_dashboard_data", "get_sales_stats"}

\* C11, as claimed: get_sales_stats and get_dashboard_data always return the
\* five aggregates, none of them null: zeros when no sale exists, also on a
\* store where no sale was ever recorded, and after N sales the count N, the
\* sum of the sold quantities and the sums of the stored totals.
C11_StatsAlwaysReturned ==
  StatsCalled =>
    /\ last.result = "ok"
    /\ \A col \in DOMAIN last.stats : last.stats[col] # SqlNull
    /\ last.stats = ExpectedStats(db.sales)

\* C11, where the code agrees: the same once the sales table exists.
C11_StatsWhenSalesTableExists ==
  (StatsCalled /\ db.salesTable) =>
    /\ last.result = "ok"
    /\ \A col \in DOMAIN last.stats : last.stats[col] # SqlNull
    /\ last.stats = ExpectedStats(db.sales)

\* the dashboard was read after two sales of different quantities
C11_WitnessTwoSales ==
  /\ last.op = "get_dashboard_data" /\ last.result = "ok"
  /\ Len(db.sales) = 2 /\ db.sales[1].quantity # db.sales[2].quantity

\* the dashboard was read on a created schema with no sale
C11_WitnessNoSale ==
  /\ StatsCalled /\ last.result = "ok" /\ db.sales = <<>>

\* the dashboard was read on a store that was never initialised
C11_FreshStore ==
  /\ StatsCalled /\ last.result = "DatabaseError" /\ db = EmptyDb

====
